---- MODULE Spec2Model ----
(***************************************************************************)
(* Model of website/create-og-image.py: a script that composes a 1200x630  *)
(* Open Graph image (gradient, mascot, six text labels), saves it as       *)
(* horsestrap-og-image.png, and falls back to copying the mascot file over *)
(* the output when the imaging library is missing or any step raises.      *)
(***************************************************************************)
EXTENDS Integers, Sequences, FiniteSets, TLC

(* ---------------- program constants ---------------- *)
width == 1200
height == 630
GradStart == 74
GradEnd == 58
GreenOffset == -10
BlueOffset == 20
MascotSide == 280
PasteX == 100
PasteY == 175
x_text == 450
y_start == 180
PunX == 1160
PunY == 600

(* ---------------- bounds of the model ---------------- *)
\* number of consecutive invocations of the script that are followed
MaxRuns == 2

(* ---------------- files ---------------- *)
Absent == [kind |-> "absent"]
Truncated == [kind |-> "truncated"]
OldFile == [kind |-> "image", w |-> 800, h |-> 418, mode |-> "RGB", data |-> [id |-> "old"]]
MascotModes == {"RGBA", "RGB", "LA", "L", "P"}
MascotFile(w, h, m) == [kind |-> "image", w |-> w, h |-> h, mode |-> m, data |-> [id |-> "mascot"]]
Mascots == {Absent} \cup {MascotFile(512, 512, m) : m \in MascotModes}
                    \cup {MascotFile(width, height, "RGB")}
PriorOutputs == {Absent, OldFile}

(* ---------------- failures of library calls ---------------- *)
\* The environment decides which call of the composition raises, if any. Only the
\* import of line 7 raises ImportError; a failing composition call raises some other
\* Exception, whose text (str(e)) the environment decides too. draw.line may fail at
\* any scanline. A failing save may leave the output untouched or partly written.
TextSteps == <<"text1", "text2", "text3", "text4", "text5", "text6">>
FaultSteps == {"gradient", "open", "resize", "paste", "load_default", "save"}
                 \cup {TextSteps[i] : i \in 1..6}
ErrorTexts == {"", "injected failure"}
GradientFaultRows == {0, 5, height - 1}
NoFault == [step |-> "none", kind |-> "none", partial |-> FALSE, row |-> 0, msg |-> ""]
Faults == {NoFault}
            \cup {[step |-> s, kind |-> "Exception", partial |-> FALSE, row |-> 0, msg |-> m] :
                      s \in FaultSteps \ {"gradient"}, m \in ErrorTexts}
            \cup {[step |-> "gradient", kind |-> "Exception", partial |-> FALSE, row |-> r,
                    msg |-> m] : r \in GradientFaultRows, m \in ErrorTexts}
            \cup {[step |-> "save", kind |-> "Exception", partial |-> TRUE, row |-> 0,
                    msg |-> m] : m \in ErrorTexts}
NoRaise == [step |-> "none", kind |-> "none", msg |-> ""]

(* ---------------- console messages ---------------- *)
\* a printed line is the sequence of the pieces it is made of
MsgSuccess == <<"OG image created successfully: horsestrap-og-image.png">>
MsgNoPIL == <<"PIL/Pillow not available. Please install with: pip install Pillow">>
MsgFallback == <<"Falling back to copying mascot as OG image...">>
\* f"Error creating OG image: {e}"
MsgError(e) == <<"Error creating OG image: ", e.msg>>

VARIABLES
    pc,            \* position of the script
    run,           \* which invocation this is (1..MaxRuns)
    libAvailable,  \* whether "from PIL import ..." succeeds
    mascot,        \* content of horsestrap-mascot.png (Absent if missing)
    fontFail,      \* 0: all four truetype loads succeed; k: the k-th one raises
    fault,         \* the library call that raises in this environment, if any
    output,        \* content of horsestrap-og-image.png (Absent if missing)
    results,       \* output content left by each finished invocation
    img,           \* the canvas
    y,             \* gradient loop variable (-1 while not yet bound)
    color,         \* last gradient colour string (<<>> while not yet bound)
    fonts,         \* title_font, subtitle_font, tagline_font, feature_font
    t,             \* index of the next draw.text call
    console,       \* lines printed by this invocation
    raised         \* the exception that left the try body, if any

envVars == <<libAvailable, mascot, fontFail, fault>>
vars == <<pc, run, libAvailable, mascot, fontFail, fault, output, results,
          img, y, color, fonts, t, console, raised>>

(* ---------------- gradient colour (lines 17-18) ---------------- *)
\* int(): truncation toward zero of n/d. The float expression of line 17 and this
\* exact quotient truncate to the same integer for every y in range(height): the
\* quotient is an integer only at y = 0 and y = 315, where the float value is exact.
TruncDiv(n, d) == IF n >= 0 THEN n \div d ELSE -((-n) \div d)

\* variant: the division by height is left out
color_value_NoDivision(yy) == GradStart + (GradEnd - GradStart) * yy

\* int(0x4a + (0x3a - 0x4a) * (y / height))
color_value(yy) == TruncDiv(GradStart * height + (GradEnd - GradStart) * yy, height)

Channels(yy) == <<color_value(yy), color_value(yy) + GreenOffset, color_value(yy) + BlueOffset>>

HexDigit == <<"0", "1", "2", "3", "4", "5", "6", "7", "8", "9", "a", "b", "c", "d", "e", "f">>
HexChars == {HexDigit[i] : i \in 1..16}

RECURSIVE HexOf(_)
HexOf(n) == IF n < 16 THEN <<HexDigit[n + 1]>>
            ELSE HexOf(n \div 16) \o <<HexDigit[(n % 16) + 1]>>

\* format spec ":02x": sign, then zero padding up to a total width of 2, then digits
Format02x(v) ==
    LET sign == IF v < 0 THEN <<"-">> ELSE <<>>
        digs == HexOf(IF v < 0 THEN -v ELSE v)
        pad  == IF Len(sign) + Len(digs) < 2 THEN <<"0">> ELSE <<>>
    IN sign \o pad \o digs

\* f'#{color_value:02x}{color_value-10:02x}{color_value+20:02x}'
ColorString(yy) ==
    <<"#">> \o Format02x(Channels(yy)[1]) \o Format02x(Channels(yy)[2])
            \o Format02x(Channels(yy)[3])

\* draw.line(fill=color) accepts "#" followed by 3, 4, 6 or 8 hex digits
ValidColor(s) ==
    /\ Len(s) \in {4, 5, 7, 9}
    /\ s[1] = "#"
    /\ \A i \in 2..Len(s) : s[i] \in HexChars

(* ---------------- canvas, mascot, fonts, texts ---------------- *)
NoImage == [w |-> 0, h |-> 0, mode |-> "none", base |-> "none", rows |-> 0, layers |-> <<>>]
\* variant: width and height swapped
NewImage_Swapped == [w |-> height, h |-> width, mode |-> "RGB", base |-> "#4a4554",
                     rows |-> 0, layers |-> <<>>]

\* Image.new('RGB', (width, height), color='#4a4554')
NewImage == [w |-> width, h |-> height, mode |-> "RGB", base |-> "#4a4554",
             rows |-> 0, layers |-> <<>>]

\* mascot.resize((280, 280), LANCZOS): size changes, mode is kept
Resize(im, side) == [im EXCEPT !.w = side, !.h = side]

\* third argument of img.paste: mascot if mascot.mode == 'RGBA' else None
MaskFor(im) == IF im.mode = "RGBA" THEN "self" ELSE "none"

\* img.paste(mascot, (100, 175), mask)
Paste(canvas, im, at, mask) ==
    [canvas EXCEPT !.layers = Append(@, [op |-> "paste", at |-> at, size |-> <<im.w, im.h>>,
                                         mode |-> im.mode, mask |-> mask])]

Roles == <<"title_font", "subtitle_font", "tagline_font", "feature_font">>
FontSizes == <<72, 28, 24, 18>>
Unset == [kind |-> "unset", size |-> 0]
NoFonts == [r \in {Roles[i] : i \in 1..4} |-> Unset]
\* ImageFont.truetype("/System/Library/Fonts/Arial.ttf", size)
SystemFont(size) == [kind |-> "system", size |-> size]
\* ImageFont.load_default()
DefaultFont == [kind |-> "default", size |-> 0]

\* the first k assignments of lines 32-35 have been made
SystemFontsLoaded(k) ==
    [r \in {Roles[i] : i \in 1..4} |->
        IF \E i \in 1..k : Roles[i] = r
        THEN SystemFont(FontSizes[CHOOSE i \in 1..4 : Roles[i] = r])
        ELSE Unset]

\* variant: only the roles not yet bound get the default font
DefaultFonts_OnlyUnset(current) ==
    [r \in DOMAIN current |-> IF current[r] = Unset THEN DefaultFont ELSE current[r]]

\* lines 38-41: every role is rebound to the default font
DefaultFonts(current) == [r \in DOMAIN current |-> DefaultFont]

\* the six draw.text calls of lines 48-62
Texts == <<
    [name |-> "title",    at |-> <<x_text, y_start>>,       fill |-> "#f5f5f0",
     font |-> "title_font",    anchor |-> "default"],
    [name |-> "subtitle", at |-> <<x_text, y_start + 100>>, fill |-> "#b8b8c0",
     font |-> "subtitle_font", anchor |-> "default"],
    [name |-> "tagline1", at |-> <<x_text, y_start + 150>>, fill |-> "#999999",
     font |-> "tagline_font",  anchor |-> "default"],
    [name |-> "tagline2", at |-> <<x_text, y_start + 180>>, fill |-> "#999999",
     font |-> "tagline_font",  anchor |-> "default"],
    [name |-> "features", at |-> <<x_text, y_start + 230>>, fill |-> "#f5f5f0",
     font |-> "feature_font",  anchor |-> "default"],
    [name |-> "pun",      at |-> <<PunX, PunY>>,            fill |-> "#999999",
     font |-> "feature_font",  anchor |-> "ra"] >>

\* draw.text(at, string, fill=..., font=<the font bound to the role>, anchor=...)
TextLayer(i, fnts) ==
    [op |-> "text", name |-> Texts[i].name, at |-> Texts[i].at, fill |-> Texts[i].fill,
     font |-> fnts[Texts[i].font], anchor |-> Texts[i].anchor]

\* img.save('horsestrap-og-image.png', 'PNG', quality=95): the file written
Encode(canvas) ==
    [kind |-> "image", w |-> canvas.w, h |-> canvas.h, mode |-> canvas.mode, data |-> canvas]

\* variant: an existing destination is kept
CopyFile_KeepExisting(src, dst) == IF dst = Absent THEN src ELSE dst

\* shutil.copy(src, dst): the new content of dst
CopyFile(src, dst) == src

\* variant: the catch-all clause comes first
Handler_CatchAllFirst(kind) == "except_other"

\* which except clause receives an exception leaving the try body
Handler(kind) == IF kind = "ImportError" THEN "except_import" ELSE "except_other"

(* ---------------- initial states ---------------- *)
FreshRun ==
    /\ img = NoImage
    /\ y = -1
    /\ color = <<>>
    /\ fonts = NoFonts
    /\ t = 1
    /\ console = <<>>
    /\ raised = NoRaise

Init ==
    /\ pc = "import"
    /\ run = 1
    /\ libAvailable \in BOOLEAN
    /\ mascot \in Mascots
    /\ fontFail \in 0..4
    /\ fault \in Faults
    /\ output \in PriorOutputs
    /\ results = <<>>
    /\ FreshRun

(* ---------------- the try body, lines 6-66 ---------------- *)
\* an exception leaves the try body and is dispatched to an except clause
Raise(step, kind, msg) ==
    /\ pc' = Handler(kind)
    /\ raised' = [step |-> step, kind |-> kind, msg |-> msg]

\* lines 7-8
ImportPIL ==
    /\ pc = "import"
    /\ IF libAvailable
       THEN pc' = "new" /\ UNCHANGED raised
       ELSE Raise("import", "ImportError", "No module named 'PIL'")
    /\ UNCHANGED <<run, envVars, output, results, img, y, color, fonts, t, console>>

\* lines 11-13
NewCanvas ==
    /\ pc = "new"
    /\ img' = NewImage
    /\ pc' = "gradient"
    /\ UNCHANGED <<run, envVars, output, results, y, color, fonts, t, console, raised>>

\* line 19: one scanline drawn onto the canvas
LineDrawn(canvas) == [canvas EXCEPT !.rows = @ + 1]

\* the scanlines whose colour string draw.line rejects
BadColorRows == {k \in 0..(height - 1) : ~ValidColor(ColorString(k))}

\* draw.line raises at scanline k
LineRaises(k) == (fault.step = "gradient" /\ fault.row = k) \/ k \in BadColorRows

\* the exception draw.line raises at scanline k
LineError(k) ==
    IF fault.step = "gradient" /\ fault.row = k
    THEN [kind |-> fault.kind, msg |-> fault.msg]
    ELSE [kind |-> "Exception", msg |-> "unknown color specifier"]

\* lines 16-19, one iteration of the loop: scanline img.rows
DrawLine ==
    /\ pc = "gradient"
    /\ img.rows < height
    /\ y' = img.rows
    /\ color' = ColorString(img.rows)
    /\ IF LineRaises(img.rows)
       THEN /\ Raise("gradient", LineError(img.rows).kind, LineError(img.rows).msg)
            /\ UNCHANGED img
       ELSE /\ img' = LineDrawn(img)
            /\ UNCHANGED <<pc, raised>>
    /\ UNCHANGED <<run, envVars, output, results, fonts, t, console>>

\* the scanlines at which draw.line would raise
FailRows == BadColorRows \cup (IF fault.step = "gradient" THEN {fault.row} ELSE {})

\* lines 16-19, the whole loop: it runs to the end, or to the first scanline at which
\* draw.line raises, with the scanlines before it drawn and y and color bound to it
Gradient ==
    /\ pc = "gradient"
    /\ IF FailRows = {}
       THEN /\ img' = [img EXCEPT !.rows = height]
            /\ y' = height - 1
            /\ color' = ColorString(height - 1)
            /\ pc' = "mascot"
            /\ UNCHANGED raised
       ELSE LET k == CHOOSE r \in FailRows : \A q \in FailRows : r <= q
            IN /\ img' = [img EXCEPT !.rows = k]
               /\ y' = k
               /\ color' = ColorString(k)
               /\ Raise("gradient", LineError(k).kind, LineError(k).msg)
    /\ UNCHANGED <<run, envVars, output, results, fonts, t, console>>

\* variant: the os.path.exists test is left out
CompositeMascot_NoExistsTest ==
    /\ pc = "mascot"
    /\ IF mascot = Absent \/ fault.step \in {"open", "resize", "paste"}
       THEN /\ pc' = "except_other"
            /\ raised' = [step |-> "open", kind |-> "Exception", msg |-> ""]
            /\ UNCHANGED img
       ELSE /\ img' = Paste(img, Resize(mascot, MascotSide), <<PasteX, PasteY>>,
                            MaskFor(Resize(mascot, MascotSide)))
            /\ pc' = "fonts"
            /\ UNCHANGED raised
    /\ UNCHANGED <<run, envVars, output, results, y, color, fonts, t, console>>

\* lines 22-27
CompositeMascot ==
    /\ pc = "mascot"
    /\ IF mascot = Absent
       THEN /\ pc' = "fonts"
            /\ UNCHANGED <<img, raised>>
       ELSE IF fault.step \in {"open", "resize", "paste"}
       THEN /\ Raise(fault.step, fault.kind, fault.msg)
            /\ UNCHANGED img
       ELSE /\ img' = Paste(img, Resize(mascot, MascotSide), <<PasteX, PasteY>>,
                            MaskFor(Resize(mascot, MascotSide)))
            /\ pc' = "fonts"
            /\ UNCHANGED raised
    /\ UNCHANGED <<run, envVars, output, results, y, color, fonts, t, console>>

\* lines 30-36: the four truetype loads; the bare except catches the first failure
LoadSystemFonts ==
    /\ pc = "fonts"
    /\ IF fontFail = 0
       THEN /\ fonts' = SystemFontsLoaded(4)
            /\ pc' = "text"
       ELSE /\ fonts' = SystemFontsLoaded(fontFail - 1)
            /\ pc' = "default_fonts"
    /\ UNCHANGED <<run, envVars, output, results, img, y, color, t, console, raised>>

\* lines 37-41
LoadDefaultFonts ==
    /\ pc = "default_fonts"
    /\ IF fault.step = "load_default"
       THEN /\ Raise("load_default", fault.kind, fault.msg)
            /\ UNCHANGED fonts
       ELSE /\ fonts' = DefaultFonts(fonts)
            /\ pc' = "text"
            /\ UNCHANGED raised
    /\ UNCHANGED <<run, envVars, output, results, img, y, color, t, console>>

\* variant: the save comes one draw.text call early
AfterText_OneEarly(i) == IF i >= Len(Texts) - 1 THEN "save" ELSE "text"

\* where the script goes after the i-th draw.text call
AfterText(i) == IF i = Len(Texts) THEN "save" ELSE "text"

\* lines 48-62, one draw.text call
DrawText ==
    /\ pc = "text"
    /\ IF fault.step = TextSteps[t]
       THEN /\ Raise(TextSteps[t], fault.kind, fault.msg)
            /\ UNCHANGED <<img, t>>
       ELSE /\ img' = [img EXCEPT !.layers = Append(@, TextLayer(t, fonts))]
            /\ t' = t + 1
            /\ pc' = AfterText(t)
            /\ UNCHANGED raised
    /\ UNCHANGED <<run, envVars, output, results, y, color, fonts, console>>

\* variant: an output file that already exists is not overwritten
Save_KeepExisting ==
    /\ pc = "save"
    /\ IF fault.step = "save"
       THEN /\ output' = IF fault.partial THEN Truncated ELSE output
            /\ pc' = Handler(fault.kind)
            /\ raised' = [step |-> "save", kind |-> fault.kind, msg |-> fault.msg]
       ELSE /\ output' = IF output = Absent THEN Encode(img) ELSE output
            /\ pc' = "print"
            /\ UNCHANGED raised
    /\ UNCHANGED <<run, envVars, results, img, y, color, fonts, t, console>>

\* line 65
Save ==
    /\ pc = "save"
    /\ IF fault.step = "save"
       THEN /\ output' = IF fault.partial THEN Truncated ELSE output
            /\ Raise("save", fault.kind, fault.msg)
       ELSE /\ output' = Encode(img)
            /\ pc' = "print"
            /\ UNCHANGED raised
    /\ UNCHANGED <<run, envVars, results, img, y, color, fonts, t, console>>

\* line 66
PrintSuccess ==
    /\ pc = "print"
    /\ console' = Append(console, MsgSuccess)
    /\ pc' = "done"
    /\ UNCHANGED <<run, envVars, output, results, img, y, color, fonts, t, raised>>

(* ---------------- the except clauses, lines 68-78 ---------------- *)
\* variant: the destination is opened (and emptied) before the source is found missing
FallbackCopy_DestinationFirst ==
    IF mascot = Absent
    THEN /\ pc' = "crashed"
         /\ output' = Truncated
    ELSE /\ output' = CopyFile(mascot, output)
         /\ pc' = "done"

\* shutil.copy('horsestrap-mascot.png', 'horsestrap-og-image.png'): raises when the
\* source is missing, before the destination is opened
FallbackCopy ==
    IF mascot = Absent
    THEN /\ pc' = "crashed"
         /\ UNCHANGED output
    ELSE /\ output' = CopyFile(mascot, output)
         /\ pc' = "done"

\* lines 68-72
HandleImportError ==
    /\ pc = "except_import"
    /\ console' = console \o <<MsgNoPIL, MsgFallback>>
    /\ FallbackCopy
    /\ UNCHANGED <<run, envVars, results, img, y, color, fonts, t, raised>>

\* lines 74-78
HandleException ==
    /\ pc = "except_other"
    /\ console' = console \o <<MsgError(raised), MsgFallback>>
    /\ FallbackCopy
    /\ UNCHANGED <<run, envVars, results, img, y, color, fonts, t, raised>>

(* ---------------- the script is invoked again ---------------- *)
Terminated == pc \in {"done", "crashed"}

Rerun ==
    /\ Terminated
    /\ run < MaxRuns
    /\ run' = run + 1
    /\ results' = Append(results, output)
    /\ pc' = "import"
    /\ img' = NoImage
    /\ y' = -1
    /\ color' = <<>>
    /\ fonts' = NoFonts
    /\ t' = 1
    /\ console' = <<>>
    /\ raised' = NoRaise
    /\ UNCHANGED <<envVars, output>>

Next ==
    \/ ImportPIL
    \/ NewCanvas
    \/ Gradient
    \/ CompositeMascot
    \/ LoadSystemFonts
    \/ LoadDefaultFonts
    \/ DrawText
    \/ Save
    \/ PrintSuccess
    \/ HandleImportError
    \/ HandleException
    \/ Rerun

Spec == Init /\ [][Next]_vars

(* ---------------- the gradient loop alone, row by row ---------------- *)
\* the state in which line 16 is reached, the library being available
InitGradient ==
    /\ pc = "gradient"
    /\ run = 1
    /\ libAvailable = TRUE
    /\ mascot \in Mascots
    /\ fontFail \in 0..4
    /\ fault = NoFault
    /\ output \in PriorOutputs
    /\ results = <<>>
    /\ img = NewImage
    /\ y = -1
    /\ color = <<>>
    /\ fonts = NoFonts
    /\ t = 1
    /\ console = <<>>
    /\ raised = NoRaise

NextGradient == DrawLine

SpecGradient == InitGradient /\ [][NextGradient]_vars

(* ======================================================================= *)
(* Properties                                                              *)
(* ======================================================================= *)
Printed(m) == \E i \in DOMAIN console : console[i] = m
FellBack == Printed(MsgFallback)
IsImage(f) == f.kind = "image"
Dims(f) == IF IsImage(f) THEN <<f.w, f.h>> ELSE <<0, 0>>
\* the file is an image written by img.save (its data is a canvas)
IsComposed(f) == IsImage(f) /\ "layers" \in DOMAIN f.data
PasteLayers(canvas) == {i \in DOMAIN canvas.layers : canvas.layers[i].op = "paste"}
TextLayers(canvas) == {i \in DOMAIN canvas.layers : canvas.layers[i].op = "text"}
\* a library call that raises in this environment is reached by the script
FaultFires ==
    /\ libAvailable
    /\ fault # NoFault
    /\ fault.step \in {"open", "resize", "paste"} => mascot # Absent
    /\ fault.step = "load_default" => fontFail > 0

(* ---- C1 ---- *)
\* C1 as stated: in every run with the library available and the mascot file present,
\* the output file exists at the end of the run and is 1200x630, also when a
\* composition step raised and the mascot was copied over the output.
C1_OutputAlwaysCanvasSized ==
    (Terminated /\ libAvailable /\ mascot # Absent)
        => (IsImage(output) /\ Dims(output) = <<1200, 630>>)

\* C1 amended: in every run with the library available and the mascot file present,
\* the run ends normally and the output file exists; it is the saved 1200x630 canvas
\* when no composition step raised, and a copy of the mascot (with the mascot's
\* dimensions) when a step raised.
C1_OutputExists ==
    (Terminated /\ libAvailable /\ mascot # Absent)
        => /\ pc = "done"
           /\ IsImage(output)
           /\ raised = NoRaise => (IsComposed(output) /\ Dims(output) = <<1200, 630>>)
           /\ raised # NoRaise => (output = mascot /\ Dims(output) = <<mascot.w, mascot.h>>)

C1_Witness ==
    /\ pc = "done" /\ libAvailable /\ mascot # Absent /\ raised = NoRaise
    /\ Dims(mascot) # <<1200, 630>>
    /\ IsComposed(output) /\ Dims(output) = <<1200, 630>>

(* ---- C2 ---- *)
\* C2 as stated: in every run with the library available and no mascot file, the
\* mascot step is skipped, the run reaches the save without entering a fallback, and
\* the saved output is 1200x630.
C2_NoMascotAlwaysSucceeds ==
    (Terminated /\ libAvailable /\ mascot = Absent)
        => /\ PasteLayers(img) = {}
           /\ ~FellBack
           /\ pc = "done"
           /\ IsComposed(output) /\ Dims(output) = <<1200, 630>>

\* C2 amended: in every run with the library available and no mascot file the mascot
\* step is skipped: nothing is pasted and no mascot call (open, resize, paste) is made
\* or raises. The run then ends in one of two ways. When no call of the composition
\* raises, it reaches the save without entering a fallback, prints the success message
\* alone, and the saved output is the 1200x630 canvas with no mascot on it. When a
\* call of the composition raises (a gradient line, the default-font load, a text draw
\* or the save, and only then), the run enters the catch-all clause, prints the error
\* message with the exception's text and the fallback message, and ends in the
\* unhandled failure of the copy: no success message, and the output is not this
\* run's canvas but what was there before the run, or the partly written file of a
\* failed save.
C2_NoMascotSkipsPaste ==
    (libAvailable /\ mascot = Absent)
        => /\ PasteLayers(img) = {}
           /\ raised.step \notin {"open", "resize", "paste"}
           /\ Terminated
                => /\ raised = NoRaise <=> ~FaultFires
                   /\ raised = NoRaise
                        => /\ ~FellBack
                           /\ pc = "done"
                           /\ console = <<MsgSuccess>>
                           /\ output = Encode(img)
                           /\ IsComposed(output) /\ Dims(output) = <<1200, 630>>
                           /\ output.data.rows = 630
                           /\ PasteLayers(output.data) = {}
                   /\ raised # NoRaise
                        => /\ pc = "crashed"
                           /\ raised.kind = "Exception"
                           /\ raised.step \in {"gradient", "load_default", "save",
                                                "text1", "text2", "text3", "text4",
                                                "text5", "text6"}
                           /\ raised.step = fault.step
                           /\ console = << <<"Error creating OG image: ", fault.msg>>,
                                           MsgFallback >>
                           /\ IF raised.step = "save" /\ fault.partial
                              THEN output = Truncated
                              ELSE IF results = <<>>
                              THEN output \in PriorOutputs
                              ELSE output = results[Len(results)]

C2_Witness ==
    /\ pc = "done" /\ libAvailable /\ mascot = Absent /\ raised = NoRaise
    /\ fault.step = "open"
    /\ IsComposed(output) /\ PasteLayers(output.data) = {}

(* ---- C3 ---- *)
\* C3: when the import of the imaging library fails and the mascot file exists, nothing
\* is drawn or saved, the missing-library message is printed, and the run ends with
\* the output file holding exactly the mascot file's content.
C3_ImportFailureCopiesMascot ==
    ~libAvailable
        => /\ img = NoImage
           /\ pc \in {"import", "except_import", "done", "crashed"}
           /\ (Terminated /\ mascot # Absent)
                => /\ pc = "done"
                   /\ raised.step = "import" /\ raised.kind = "ImportError"
                   /\ console = <<MsgNoPIL, MsgFallback>>
                   /\ output = mascot

C3_Witness ==
    /\ pc = "done" /\ ~libAvailable /\ mascot # Absent /\ run = 1
    /\ output = mascot /\ Printed(MsgNoPIL)

(* ---- C4 ---- *)
\* C4: when a composition step (gradient, mascot open/resize/paste, default-font load,
\* a text draw, the save) raises a non-import error and the mascot file exists, the
\* error message is printed and the run ends with the output holding the mascot's
\* content, also when the save itself failed after partly writing the output.
C4_CompositionFailureCopiesMascot ==
    /\ (Terminated /\ FaultFires)
         => raised = [step |-> fault.step, kind |-> fault.kind, msg |-> fault.msg]
    /\ (Terminated /\ raised.kind = "Exception" /\ mascot # Absent)
         => /\ pc = "done"
            /\ console = << <<"Error creating OG image: ", fault.msg>>, MsgFallback >>
            /\ output = mascot

C4_Witness ==
    /\ pc = "done" /\ mascot # Absent
    /\ raised.step = "save" /\ raised.kind = "Exception"
    /\ fault.partial /\ fault.msg = "injected failure"
    /\ output = mascot /\ Printed(<<"Error creating OG image: ", "injected failure">>)

(* ---- C5 ---- *)
\* C5: a fallback copy attempted while the mascot file is missing ends the run with an
\* unhandled error: the script is in neither except clause again, no success message
\* is printed, and the output file is left exactly as the fallback found it.
C5_FallbackWithoutMascotCrashes ==
    [][ /\ (pc \in {"except_import", "except_other"} /\ mascot = Absent)
            => /\ pc' = "crashed"
               /\ output' = output
               /\ \A i \in DOMAIN console' : console'[i] # MsgSuccess
        /\ pc = "crashed" => (pc' = "import" /\ run' = run + 1)
        /\ pc' = "crashed" => (pc \in {"except_import", "except_other"} /\ mascot = Absent)
      ]_vars

C5_Witness ==
    /\ pc = "crashed" /\ mascot = Absent /\ FellBack
    /\ raised.step = "save" /\ output = OldFile

(* ---- C6 ---- *)
\* what a run leaves in the output file, computed from the library availability, the
\* mascot file, the font availability and the failing library call alone
ExpectedFonts ==
    IF fontFail = 0
    THEN [r \in DOMAIN NoFonts |-> [kind |-> "system",
              size |-> <<72, 28, 24, 18>>[CHOOSE i \in 1..4 : Roles[i] = r]]]
    ELSE [r \in DOMAIN NoFonts |-> [kind |-> "default", size |-> 0]]
ExpectedLayers ==
    (IF mascot = Absent THEN <<>>
     ELSE <<[op |-> "paste", at |-> <<100, 175>>, size |-> <<280, 280>>,
             mode |-> mascot.mode, mask |-> IF mascot.mode = "RGBA" THEN "self" ELSE "none"]>>)
    \o [i \in 1..6 |-> TextLayer(i, ExpectedFonts)]
ExpectedOutput ==
    IF libAvailable /\ ~FaultFires
    THEN [kind |-> "image", w |-> 1200, h |-> 630, mode |-> "RGB",
          data |-> [w |-> 1200, h |-> 630, mode |-> "RGB", base |-> "#4a4554",
                    rows |-> 630, layers |-> ExpectedLayers]]
    ELSE mascot

\* C6 as stated: the output file after a run is determined by the library availability,
\* the mascot file and the font availability, whatever output file existed before:
\* the output is overwritten unconditionally.
C6_OutputIndependentOfPrior == Terminated => output = ExpectedOutput

\* C6 amended: for every run that ends normally (the composition is saved, or the
\* fallback copy finds the mascot) the output file after the run is determined by the
\* inputs, whatever output file existed before; running the script again with the same
\* inputs leaves the same output content as the first run; the mascot file and the
\* font availability are never changed. (A run that ends in the unhandled fallback
\* failure does not overwrite the output.)
C6_NormalRunsIndependentOfPrior ==
    /\ [](pc = "done" => output = ExpectedOutput)
    /\ [](Terminated => \A i \in DOMAIN results : results[i] = output)
    /\ [][mascot' = mascot /\ fontFail' = fontFail /\ libAvailable' = libAvailable]_vars

C6_Witness ==
    /\ pc = "done" /\ run = 2 /\ results = <<output>>
    /\ IsComposed(output) /\ output = ExpectedOutput

(* ---- C7 ---- *)
\* C7: for every scanline y in [0, 630) the gradient colour red = trunc(0x4a +
\* (0x3a - 0x4a) * y / 630), green = red - 10, blue = red + 20 has its three channels in
\* 0..255; each formats as exactly two hex digits and the gradient loop never raises.
C7_GradientChannelsInRange ==
    /\ raised = NoRaise
    /\ pc = "gradient"
    /\ img.rows \in 0..630
    /\ \A k \in {img.rows - 1, img.rows} \cap 0..629 :
          \A i \in 1..3 : /\ Channels(k)[i] \in 0..255
                          /\ Len(Format02x(Channels(k)[i])) = 2
    /\ img.rows > 0 => (y = img.rows - 1 /\ color = ColorString(y)
                         /\ Len(color) = 7 /\ ValidColor(color))

C7_Witness ==
    /\ y = 629 /\ img.rows = 630
    /\ color = ColorString(629)
    /\ Channels(0) = <<74, 64, 94>> /\ Channels(629) = <<58, 48, 78>>

(* ---- C8 ---- *)
HasAlpha(m) == m \in {"RGBA", "LA", "PA", "La", "RGBa"}

\* C8: the mascot is pasted at (100, 175) after resizing to 280x280, and for every
\* image mode the image is its own paste mask exactly when it has an alpha channel.
C8_MaskIffAlpha ==
    \A i \in PasteLayers(img) :
        /\ img.layers[i].at = <<100, 175>>
        /\ img.layers[i].size = <<280, 280>>
        /\ img.layers[i].mode = mascot.mode
        /\ (img.layers[i].mask = "self") <=> HasAlpha(mascot.mode)

(* ---- C9 ---- *)
AllSystemFonts ==
    \A i \in 1..4 : fonts[Roles[i]] = [kind |-> "system", size |-> <<72, 28, 24, 18>>[i]]
AllDefaultFonts ==
    \A i \in 1..4 : fonts[Roles[i]] = [kind |-> "default", size |-> 0]

\* C9: when the first text is drawn (and from then on) either all four roles hold the
\* system font at sizes 72, 28, 24, 18 or all four hold the default font, never a mix;
\* every text is drawn with such a font; and a failing system-font load alone never
\* sends the run into the copy fallback.
C9_FontsAllOrNothing ==
    /\ (pc \in {"text", "save", "print"} \/ TextLayers(img) # {})
         => /\ AllSystemFonts \/ AllDefaultFonts
            /\ AllSystemFonts <=> fontFail = 0
            /\ \A i \in TextLayers(img) : img.layers[i].font = fonts[Texts[i - Cardinality(PasteLayers(img))].font]
    /\ (libAvailable /\ fontFail > 0 /\ fault = NoFault) => (~FellBack /\ raised = NoRaise)

C9_Witness ==
    /\ pc = "text" /\ t = 1 /\ fontFail = 3 /\ AllDefaultFonts

(* ---- C10 ---- *)
LayerName(l) == IF l.op = "paste" THEN "mascot" ELSE l.name
ExpectedOrder ==
    (IF mascot = Absent THEN <<>> ELSE <<"mascot">>)
    \o <<"title", "subtitle", "tagline1", "tagline2", "features", "pun">>
InOrder(canvas) ==
    /\ Len(canvas.layers) <= Len(ExpectedOrder)
    /\ \A i \in DOMAIN canvas.layers : LayerName(canvas.layers[i]) = ExpectedOrder[i]

\* C10: the steps of a run happen in one order: the 630 gradient rows, the optional
\* mascot paste, the font resolution, the six texts (title, subtitle, two tagline
\* lines, feature line, closing pun), the save, the success message. The composed
\* image is written only with all six texts on it, the success message is printed only
\* after the save, and no fallback follows the success message.
C10_FixedOrder ==
    /\ InOrder(img)
    /\ img.layers # <<>> => img.rows = 630
    /\ pc \in {"fonts", "default_fonts", "text", "save", "print"}
         => (img.rows = 630 /\ Len(img.layers) >= Cardinality(PasteLayers(img)))
    /\ \A i \in TextLayers(img) : img.layers[i].font.kind \in {"system", "default"}
    /\ pc \in {"gradient", "mascot", "fonts"} => (TextLayers(img) = {} /\ fonts = NoFonts)
    /\ pc \in {"save", "print"} => Len(img.layers) = Len(ExpectedOrder)
    /\ (IsComposed(output) /\ results = <<>>)
         => (Len(output.data.layers) = Len(ExpectedOrder) /\ InOrder(output.data)
             /\ pc \in {"print", "done"})
    /\ Printed(MsgSuccess)
         => (pc = "done" /\ output = Encode(img) /\ console = <<MsgSuccess>> /\ ~FellBack)
    /\ FellBack => ~Printed(MsgSuccess)

C10_Witness ==
    /\ pc = "done" /\ console = <<MsgSuccess>> /\ mascot # Absent
    /\ Len(img.layers) = 7 /\ output = Encode(img)

====
